---- MODULE Spec2Model ----
(***************************************************************************)
(* IOService (src/IOService/app.py): a Flask application whose handlers   *)
(* each open one PostgreSQL connection, run one statement (create_user:   *)
(* two), commit or roll back, close the connection and answer in JSON.    *)
(*                                                                         *)
(* The committed contents of the four tables are the variable db.  Each   *)
(* worker serves one request at a time; a step of a worker is one call    *)
(* into the database driver (connect, cursor, execute, commit, rollback,  *)
(* close) together with the handler's local code up to the next call.     *)
(* Every driver call that can raise is a nondeterministic choice between  *)
(* its success and its failure.                                           *)
(***************************************************************************)
EXTENDS Integers, Sequences, FiniteSets, TLC

\* Bounds of the model.
MaxRequests == 3
MaxConcurrent == 2
MaxId == 2

Workers == {"w1", "w2"}
PathIds == 1 .. MaxId

(***************************************************************************)
(* JSON values of a request body, as Python sees them after get_json().   *)
(* A string is its sequence of characters; a float is kept in tenths.     *)
(***************************************************************************)
JStr(s) == [t |-> "str", s |-> s, n |-> 0]
JInt(n) == [t |-> "int", s |-> <<>>, n |-> n]
JBool(b) == [t |-> "bool", s |-> <<>>, n |-> IF b THEN 1 ELSE 0]
JFloat(tenths) == [t |-> "float", s |-> <<>>, n |-> tenths]
PyNone == [t |-> "none", s |-> <<>>, n |-> 0]

DigitChars == {"0", "1", "2", "3", "4", "5", "6", "7", "8", "9"}

DigitVal(c) ==
  CASE c = "0" -> 0 [] c = "1" -> 1 [] c = "2" -> 2 [] c = "3" -> 3
    [] c = "4" -> 4 [] c = "5" -> 5 [] c = "6" -> 6 [] c = "7" -> 7
    [] c = "8" -> 8 [] c = "9" -> 9

RECURSIVE DigitsToNat(_)
DigitsToNat(cs) ==
  IF cs = <<>> THEN 0
  ELSE 10 * DigitsToNat(SubSeq(cs, 1, Len(cs) - 1)) + DigitVal(cs[Len(cs)])

AllDigits(cs) == Len(cs) > 0 /\ \A i \in 1 .. Len(cs) : cs[i] \in DigitChars

HasSign(cs) == Len(cs) > 0 /\ cs[1] \in {"-", "+"}

\* Python's int(value): whether it returns, and what.
PyIntOk(v) ==
  CASE v.t = "int" -> TRUE
    [] v.t = "bool" -> TRUE
    [] v.t = "float" -> TRUE
    [] v.t = "str" -> IF HasSign(v.s) THEN AllDigits(Tail(v.s)) ELSE AllDigits(v.s)
    [] OTHER -> FALSE

PyInt(v) ==
  CASE v.t = "int" -> v.n
    [] v.t = "bool" -> v.n
    [] v.t = "float" -> IF v.n >= 0 THEN v.n \div 10 ELSE -((-v.n) \div 10)
    [] v.t = "str" ->
         IF HasSign(v.s)
         THEN (IF v.s[1] = "-" THEN -1 ELSE 1) * DigitsToNat(Tail(v.s))
         ELSE DigitsToNat(v.s)

(***************************************************************************)
(* A JSON object is the sequence of its (key, value) pairs, in the order  *)
(* data.items() yields them.                                               *)
(***************************************************************************)
HasKey(data, k) == \E i \in 1 .. Len(data) : data[i][1] = k

\* data[k]
Get(data, k) == data[CHOOSE i \in 1 .. Len(data) : data[i][1] = k][2]

\* data.get(k, d)
GetDefault(data, k, d) == IF HasKey(data, k) THEN Get(data, k) ELSE d

Str(s) == JStr(<<s>>)


(***************************************************************************)
(* The store.  Users, games and purchases are keyed by their generated    *)
(* id; Wallets is the sequence of its rows.  nextId holds the three id    *)
(* sequences.                                                              *)
(***************************************************************************)
VARIABLES db, nextId

EmptyTable == [i \in {} |-> i]

EmptyDb == [Users |-> EmptyTable, Wallets |-> <<>>, games |-> EmptyTable,
            purchases |-> EmptyTable]

Drop(f, ids) == [i \in (DOMAIN f) \ ids |-> f[i]]

WalletIdx(d, uid) == {i \in 1 .. Len(d.Wallets) : d.Wallets[i].uid = uid}

\* A value bound to an integer column: the store accepts an integer or a
\* numeric literal.
SqlIntOk(v) == v.t = "int" \/ (v.t = "str" /\ PyIntOk(v))

SqlInt(v) == PyInt(v)

(***************************************************************************)
(* A transaction's pending work is a set of entries: a row inserted,      *)
(* updated or deleted, or a key-share lock on a parent row that an        *)
(* inserted child references.                                              *)
(***************************************************************************)
NoRow == [none |-> TRUE]

Ins(tbl, id, row) == [tbl |-> tbl, id |-> id, kind |-> "ins", row |-> row]
Upd(tbl, id, row) == [tbl |-> tbl, id |-> id, kind |-> "upd", row |-> row]
Del(tbl, id) == [tbl |-> tbl, id |-> id, kind |-> "del", row |-> NoRow]
Share(tbl, id) == [tbl |-> tbl, id |-> id, kind |-> "share", row |-> NoRow]

ApplyWrite(d, e) ==
  IF e.kind = "share" THEN d
  ELSE IF e.tbl = "Wallets"
  THEN [d EXCEPT !.Wallets =
          CASE e.kind = "ins" -> Append(@, e.row)
            [] e.kind = "upd" ->
                 [i \in 1 .. Len(@) |-> IF @[i].uid = e.id THEN e.row ELSE @[i]]
            [] e.kind = "del" -> SelectSeq(@, LAMBDA w : w.uid # e.id)]
  ELSE [d EXCEPT ![e.tbl] =
          IF e.kind = "del" THEN Drop(@, {e.id})
          ELSE (e.id :> e.row) @@ @]

RECURSIVE ApplyAll(_, _)
ApplyAll(d, writes) ==
  IF writes = {} THEN d
  ELSE LET e == CHOOSE x \in writes : TRUE
       IN ApplyAll(ApplyWrite(d, e), writes \ {e})

\* Two transactions wait for each other's end when they hold entries on the
\* same row, unless both only share it or one updates what the other shares.
Conflicts(e1, e2) ==
  /\ e1.tbl = e2.tbl
  /\ e1.id = e2.id
  /\ ~(e1.kind = "share" /\ e2.kind \in {"share", "upd"})
  /\ ~(e2.kind = "share" /\ e1.kind \in {"share", "upd"})

(***************************************************************************)
(* Statements.  Each yields [ok, rows, writes]: whether the store accepts *)
(* it, the rows the cursor then holds, and the pending work it leaves.    *)
(***************************************************************************)
Result(ok, rows, writes) == [ok |-> ok, rows |-> rows, writes |-> writes]

Failed == Result(FALSE, <<>>, {})

\* RETURNING uid, email, is_publisher, is_admin
UserView(u) == [uid |-> u.uid, email |-> u.email, is_publisher |-> u.is_publisher,
                is_admin |-> u.is_admin]

\* create_user, lines 101-107
InsertUser(d, uid, data) ==
  LET row == [uid |-> uid,
              email |-> Get(data, "email"),
              passwd |-> Get(data, "passwd"),
              is_publisher |-> GetDefault(data, "is_publisher", JBool(FALSE)),
              is_admin |-> GetDefault(data, "is_admin", JBool(FALSE))]
  IN Result(TRUE, <<UserView(row)>>, {Ins("Users", uid, row)})

\* The balance a new wallet starts with, line 114.
InitialBalance == 0

WalletRow(uid) == [uid |-> uid, balance |-> InitialBalance]

\* create_user without its second INSERT.
InsertWalletForgotten(d, uid) == Result(TRUE, <<>>, {})

\* create_user, lines 110-115
InsertWallet(d, uid) ==
  IF uid \in DOMAIN d.Users
  THEN Result(TRUE, <<>>, {Ins("Wallets", uid, WalletRow(uid)), Share("Users", uid)})
  ELSE Failed

\* The (key, value) pairs of the body whose key is in the whitelist, in body order.
SetParts(data, valid_fields) == SelectSeq(data, LAMBDA kv : kv[1] \in valid_fields)

RECURSIVE Assign(_, _)
Assign(row, parts) ==
  IF parts = <<>> THEN row
  ELSE Assign([row EXCEPT ![parts[1][1]] = parts[1][2]], Tail(parts))

UserFields == {"email", "passwd", "is_publisher", "is_admin"}

\* update_user that skips the statement when no column is named.
UpdateUserSkipsEmpty(d, uid, data) ==
  IF SetParts(data, UserFields) = <<>> \/ uid \notin DOMAIN d.Users
  THEN Result(TRUE, <<>>, {})
  ELSE LET row == Assign(d.Users[uid], SetParts(data, UserFields))
       IN Result(TRUE, <<UserView(row)>>, {Upd("Users", uid, row)})

\* update_user, lines 173-195: an empty SET list is a syntax error.
UpdateUser(d, uid, data) ==
  LET parts == SetParts(data, UserFields)
  IN IF parts = <<>> THEN Failed
     ELSE IF uid \notin DOMAIN d.Users THEN Result(TRUE, <<>>, {})
     ELSE LET row == Assign(d.Users[uid], parts)
          IN Result(TRUE, <<UserView(row)>>, {Upd("Users", uid, row)})

\* ORDER BY an integer key, ascending.
RECURSIVE Ascending(_)
Ascending(ids) ==
  IF ids = {} THEN <<>>
  ELSE LET m == CHOOSE x \in ids : \A y \in ids : x <= y
       IN <<m>> \o Ascending(ids \ {m})

Reverse(q) == [i \in 1 .. Len(q) |-> q[Len(q) + 1 - i]]

GamesOf(d, uid) == {g \in DOMAIN d.games : d.games[g].publisher = uid}

PurchasesOfUser(d, uid) == {p \in DOMAIN d.purchases : d.purchases[p].user_id = uid}

PurchasesOfGames(d, gids) == {p \in DOMAIN d.purchases : d.purchases[p].game_id \in gids}

UserDependents(d, uid) ==
  {Del("Wallets", uid) : i \in WalletIdx(d, uid)}
    \cup {Del("games", g) : g \in GamesOf(d, uid)}
    \cup {Del("purchases", p) : p \in PurchasesOfUser(d, uid) \cup PurchasesOfGames(d, GamesOf(d, uid))}

GameDependents(d, gid) == {Del("purchases", p) : p \in PurchasesOfGames(d, {gid})}

\* What the schema does to the rows that reference a deleted row.
ReferentialActions == {"cascade", "restrict"}

DeleteWithDependents(tbl, id, dependents, action) ==
  IF dependents = {} THEN Result(TRUE, <<[id |-> id]>>, {Del(tbl, id)})
  ELSE IF action = "cascade" THEN Result(TRUE, <<[id |-> id]>>, {Del(tbl, id)} \cup dependents)
  ELSE Failed

\* delete_user, line 216
DeleteUser(d, uid, action) ==
  IF uid \notin DOMAIN d.Users THEN Result(TRUE, <<>>, {})
  ELSE DeleteWithDependents("Users", uid, UserDependents(d, uid), action)

\* get_users, lines 133-136
SelectUsers(d) ==
  LET ids == Ascending(DOMAIN d.Users)
  IN Result(TRUE, [i \in 1 .. Len(ids) |-> UserView(d.Users[ids[i]])], {})

\* get_user, lines 152-156
SelectUser(d, uid) ==
  Result(TRUE, IF uid \in DOMAIN d.Users THEN <<UserView(d.Users[uid])>> ELSE <<>>, {})

\* get_wallet, line 239
SelectWallet(d, uid) ==
  Result(TRUE, SelectSeq(d.Wallets, LAMBDA w : w.uid = uid), {})

\* update_wallet_balance, lines 264-267
UpdateWallet(d, uid, balance) ==
  IF WalletIdx(d, uid) = {} THEN Result(TRUE, <<>>, {})
  ELSE LET row == [uid |-> uid, balance |-> balance]
       IN Result(TRUE, <<row>>, {Upd("Wallets", uid, row)})

GameFields == {"name", "description", "price", "status"}

\* create_game, lines 300-308: the publisher must be a user.
InsertGame(d, gid, data) ==
  IF ~SqlIntOk(Get(data, "publisher")) \/ SqlInt(Get(data, "publisher")) \notin DOMAIN d.Users
  THEN Failed
  ELSE LET row == [gid |-> gid,
                   name |-> Get(data, "name"),
                   description |-> GetDefault(data, "description", JStr(<<>>)),
                   price |-> PyInt(Get(data, "price")),
                   publisher |-> SqlInt(Get(data, "publisher")),
                   status |-> Get(data, "status")]
       IN Result(TRUE, <<row>>,
                 {Ins("games", gid, row), Share("Users", row.publisher)})

\* SELECT ... FROM games g JOIN Users u ON g.publisher = u.uid
GameView(d, gid) ==
  LET g == d.games[gid]
  IN [gid |-> g.gid, name |-> g.name, description |-> g.description, price |-> g.price,
      publisher |-> g.publisher, publisher_email |-> d.Users[g.publisher].email,
      status |-> g.status]

JoinedGames(d) == {g \in DOMAIN d.games : d.games[g].publisher \in DOMAIN d.Users}

\* get_games, lines 326-334
SelectGames(d) ==
  LET ids == Ascending(JoinedGames(d))
  IN Result(TRUE, [i \in 1 .. Len(ids) |-> GameView(d, ids[i])], {})

\* get_game, lines 350-359
SelectGame(d, gid) ==
  Result(TRUE, IF gid \in JoinedGames(d) THEN <<GameView(d, gid)>> ELSE <<>>, {})

\* update_game that binds the price in hundredths.
GameValueScaled(kv) == IF kv[1] = "price" THEN <<kv[1], 100 * PyInt(kv[2])>> ELSE kv

\* update_game, lines 379-386: the value bound for each whitelisted key.
GameValue(kv) == IF kv[1] = "price" THEN <<kv[1], PyInt(kv[2])>> ELSE kv

GameSetParts(data) ==
  LET parts == SetParts(data, GameFields)
  IN [i \in 1 .. Len(parts) |-> GameValue(parts[i])]

\* update_game, lines 393-397
UpdateGame(d, gid, data) ==
  LET parts == GameSetParts(data)
  IN IF parts = <<>> THEN Failed
     ELSE IF gid \notin DOMAIN d.games THEN Result(TRUE, <<>>, {})
     ELSE LET row == Assign(d.games[gid], parts)
          IN Result(TRUE, <<row>>, {Upd("games", gid, row)})

\* delete_game, line 419
DeleteGame(d, gid, action) ==
  IF gid \notin DOMAIN d.games THEN Result(TRUE, <<>>, {})
  ELSE DeleteWithDependents("games", gid, GameDependents(d, gid), action)

\* create_purchase, lines 447-455: game and user must exist; the date is the
\* store's clock, which the purchase sequence stands for, and hours_played
\* the column's default.
InsertPurchase(d, pid, data) ==
  LET g == Get(data, "game_id")
      u == Get(data, "user_id")
  IN IF ~SqlIntOk(g) \/ ~SqlIntOk(u) THEN Failed
     ELSE IF SqlInt(g) \notin DOMAIN d.games \/ SqlInt(u) \notin DOMAIN d.Users THEN Failed
     ELSE LET row == [pid |-> pid, game_id |-> SqlInt(g), user_id |-> SqlInt(u),
                      date |-> pid, hours_played |-> 0]
          IN Result(TRUE, <<row>>,
                    {Ins("purchases", pid, row), Share("games", row.game_id),
                     Share("Users", row.user_id)})

\* SELECT ... FROM purchases p JOIN games g ... JOIN users u ...
PurchaseView(d, pid) ==
  LET p == d.purchases[pid]
  IN [pid |-> p.pid, game_id |-> p.game_id, game_name |-> d.games[p.game_id].name,
      user_id |-> p.user_id, user_email |-> d.Users[p.user_id].email,
      date |-> p.date, hours_played |-> p.hours_played]

JoinedPurchases(d) ==
  {p \in DOMAIN d.purchases :
     d.purchases[p].game_id \in DOMAIN d.games /\ d.purchases[p].user_id \in DOMAIN d.Users}

\* request.args.get(name, type=int): None when absent or not an integer
ArgInt(args, name) ==
  IF HasKey(args, name) /\ Get(args, name).t = "str" /\ PyIntOk(Get(args, name))
  THEN JInt(PyInt(Get(args, name)))
  ELSE PyNone

\* get_purchases, lines 470-500
SelectPurchases(d, args) ==
  LET user_id == ArgInt(args, "user_id")
      game_id == ArgInt(args, "game_id")
      hit == {p \in JoinedPurchases(d) :
                /\ user_id # PyNone => d.purchases[p].user_id = user_id.n
                /\ game_id # PyNone => d.purchases[p].game_id = game_id.n}
      ids == Reverse(Ascending(hit))
  IN Result(TRUE, [i \in 1 .. Len(ids) |-> PurchaseView(d, ids[i])], {})

\* get_purchase, lines 516-526
SelectPurchase(d, pid) ==
  Result(TRUE, IF pid \in JoinedPurchases(d) THEN <<PurchaseView(d, pid)>> ELSE <<>>, {})

\* update_purchase as an upsert: a missing pid gets a row.
UpdatePurchaseUpsert(d, pid, hours_played) ==
  LET row == IF pid \in DOMAIN d.purchases
             THEN [d.purchases[pid] EXCEPT !.hours_played = hours_played]
             ELSE [pid |-> pid, game_id |-> 1, user_id |-> 1, date |-> pid,
                   hours_played |-> hours_played]
  IN Result(TRUE, <<row>>, {Upd("purchases", pid, row)})

\* update_purchase, lines 550-557
UpdatePurchase(d, pid, hours_played) ==
  IF pid \notin DOMAIN d.purchases THEN Result(TRUE, <<>>, {})
  ELSE LET row == [d.purchases[pid] EXCEPT !.hours_played = hours_played]
       IN Result(TRUE, <<row>>, {Upd("purchases", pid, row)})

\* delete_purchase whose DELETE has lost its WHERE clause.
DeletePurchaseAll(d, pid) ==
  IF DOMAIN d.purchases = {} THEN Result(TRUE, <<>>, {})
  ELSE Result(TRUE, <<[id |-> pid]>>, {Del("purchases", p) : p \in DOMAIN d.purchases})

\* delete_purchase, line 578
DeletePurchase(d, pid) ==
  IF pid \notin DOMAIN d.purchases THEN Result(TRUE, <<>>, {})
  ELSE Result(TRUE, <<[id |-> pid]>>, {Del("purchases", pid)})

(***************************************************************************)
(* Requests: the route, the id in the path, and the JSON body (for        *)
(* get_purchases, the query arguments).                                    *)
(***************************************************************************)
Request(op, id, data) == [op |-> op, id |-> id, data |-> data]

NoRequest == Request("none", 0, <<>>)

Num(digits) == JStr(digits)

CreateUserBodies ==
  { << <<"email", Str("a@x")>>, <<"passwd", Str("pw")>> >>,
    << <<"email", Str("b@x")>>, <<"passwd", Str("pw")>>, <<"is_publisher", JBool(TRUE)>> >>,
    << <<"email", Str("c@x")>> >> }

UpdateUserBodies ==
  { <<>>,
    << <<"nickname", Str("x")>> >>,
    << <<"email", Str("z@x")>> >>,
    << <<"is_admin", JBool(TRUE)>>, <<"nickname", Str("x")>> >> }

WalletBodies ==
  { << <<"balance", Num(<<"-", "5">>)>> >>,
    << <<"balance", JInt(20)>> >>,
    << <<"balance", Str("lots")>> >>,
    <<>> }

CreateGameBodies ==
  { << <<"name", Str("Chess")>>, <<"price", Num(<<"5", "0", "0">>)>>,
       <<"publisher", JInt(1)>>, <<"status", Str("active")>> >>,
    << <<"name", Str("Go")>>, <<"description", Str("board")>>, <<"price", JFloat(79)>>,
       <<"publisher", JInt(2)>>, <<"status", Str("draft")>> >>,
    << <<"name", Str("Chess")>>, <<"price", Str("free")>>,
       <<"publisher", JInt(1)>>, <<"status", Str("active")>> >>,
    << <<"name", Str("Chess")>>, <<"price", JInt(5)>>, <<"status", Str("active")>> >> }

UpdateGameBodies ==
  { << <<"price", Num(<<"7", "5", "0">>)>>, <<"unknown_field", Str("x")>> >>,
    << <<"unknown_field", Str("x")>> >>,
    <<>>,
    << <<"status", Str("retired")>>, <<"gid", JInt(9)>>, <<"name", Str("Go")>> >>,
    << <<"price", Str("abc")>> >> }

CreatePurchaseBodies ==
  { << <<"game_id", JInt(1)>>, <<"user_id", JInt(1)>> >>,
    << <<"game_id", JInt(2)>>, <<"user_id", JInt(1)>> >>,
    << <<"game_id", JInt(1)>> >> }

UpdatePurchaseBodies ==
  { << <<"hours_played", Num(<<"3">>)>> >>,
    << <<"hours_played", Str("x")>> >>,
    <<>> }

PurchaseQueries ==
  { <<>>,
    << <<"user_id", Num(<<"1">>)>> >>,
    << <<"user_id", Num(<<"1">>)>>, <<"game_id", Num(<<"2">>)>> >>,
    << <<"game_id", Str("x")>> >> }

ReadOps == {"get_users", "get_user", "get_wallet", "get_games", "get_game",
            "get_purchases", "get_purchase"}
CreateOps == {"create_user", "create_game", "create_purchase"}
UpdateOps == {"update_user", "update_wallet_balance", "update_game", "update_purchase"}
DeleteOps == {"delete_user", "delete_game", "delete_purchase"}
ByIdOps == {"get_user", "get_wallet", "get_game", "get_purchase"}

Requests ==
  {Request("index", 0, <<>>), Request("get_users", 0, <<>>), Request("get_games", 0, <<>>)}
    \cup {Request("create_user", 0, b) : b \in CreateUserBodies}
    \cup {Request("create_game", 0, b) : b \in CreateGameBodies}
    \cup {Request("create_purchase", 0, b) : b \in CreatePurchaseBodies}
    \cup {Request("get_purchases", 0, b) : b \in PurchaseQueries}
    \cup {Request(op, id, <<>>) : op \in ByIdOps \cup DeleteOps, id \in PathIds}
    \cup {Request("update_user", id, b) : id \in PathIds, b \in UpdateUserBodies}
    \cup {Request("update_wallet_balance", id, b) : id \in PathIds, b \in WalletBodies}
    \cup {Request("update_game", id, b) : id \in PathIds, b \in UpdateGameBodies}
    \cup {Request("update_purchase", id, b) : id \in PathIds, b \in UpdatePurchaseBodies}

\* The keys a handler reads with data[key], in the order it reads them.
RequiredKeys(op) ==
  CASE op = "create_user" -> <<"email", "passwd">>
    [] op = "update_wallet_balance" -> <<"balance">>
    [] op = "create_game" -> <<"name", "price", "publisher", "status">>
    [] op = "create_purchase" -> <<"game_id", "user_id">>
    [] op = "update_purchase" -> <<"hours_played">>
    [] OTHER -> <<>>

\* The key a handler passes to int(), if any.
IntKey(op) ==
  CASE op = "update_wallet_balance" -> "balance"
    [] op \in {"create_game", "update_game"} -> "price"
    [] op = "update_purchase" -> "hours_played"
    [] OTHER -> "-"

\* What the handler's code before get_db_connection() raises.
ParseError(r) ==
  IF \E i \in 1 .. Len(RequiredKeys(r.op)) : ~HasKey(r.data, RequiredKeys(r.op)[i])
  THEN "KeyError"
  ELSE IF HasKey(r.data, IntKey(r.op)) /\ ~PyIntOk(Get(r.data, IntKey(r.op)))
  THEN "ValueError"
  ELSE "none"

TableOf(op) ==
  CASE op \in {"create_user", "get_users", "get_user", "update_user", "delete_user"} -> "Users"
    [] op \in {"get_wallet", "update_wallet_balance"} -> "Wallets"
    [] op \in {"create_game", "get_games", "get_game", "update_game", "delete_game"} -> "games"
    [] OTHER -> "purchases"

\* The statement a handler executes on the committed store d.
Statement(d, ids, r, action) ==
  CASE r.op = "create_user" -> InsertUser(d, ids.Users, r.data)
    [] r.op = "get_users" -> SelectUsers(d)
    [] r.op = "get_user" -> SelectUser(d, r.id)
    [] r.op = "update_user" -> UpdateUser(d, r.id, r.data)
    [] r.op = "delete_user" -> DeleteUser(d, r.id, action)
    [] r.op = "get_wallet" -> SelectWallet(d, r.id)
    [] r.op = "update_wallet_balance" -> UpdateWallet(d, r.id, PyInt(Get(r.data, "balance")))
    [] r.op = "create_game" -> InsertGame(d, ids.games, r.data)
    [] r.op = "get_games" -> SelectGames(d)
    [] r.op = "get_game" -> SelectGame(d, r.id)
    [] r.op = "update_game" -> UpdateGame(d, r.id, r.data)
    [] r.op = "delete_game" -> DeleteGame(d, r.id, action)
    [] r.op = "create_purchase" -> InsertPurchase(d, ids.purchases, r.data)
    [] r.op = "get_purchases" -> SelectPurchases(d, r.data)
    [] r.op = "get_purchase" -> SelectPurchase(d, r.id)
    [] r.op = "update_purchase" -> UpdatePurchase(d, r.id, PyInt(Get(r.data, "hours_played")))
    [] r.op = "delete_purchase" -> DeletePurchase(d, r.id)

(***************************************************************************)
(* Responses, and the generic error handler.                               *)
(***************************************************************************)
Response(status, error, detail, body) ==
  [status |-> status, error |-> error, detail |-> detail, body |-> body]

NoResponse == Response(0, "", "", <<>>)

DatabaseError == Response(500, "Database error", "str(e)", <<>>)

\* handle_exception without its ConnectionError branch.
handle_exception_no_503(e) ==
  IF e = "InternalServerError"
  THEN Response(500, "Internal Server Error", "e.description", <<>>)
  ELSE Response(500, "Internal Server Error", "An unexpected error occurred.", <<>>)

\* handle_exception for an exception that is no psycopg2.Error, lines 53-69.
handle_exception(e) ==
  IF e = "ConnectionError"
  THEN Response(503, "Database connection failed", "str(e)", <<>>)
  ELSE IF e = "InternalServerError"
  THEN Response(500, "Internal Server Error", "e.description", <<>>)
  ELSE Response(500, "Internal Server Error", "An unexpected error occurred.", <<>>)

\* An exception raised inside handle_exception leaves it; the framework wraps
\* it in an InternalServerError and hands that to handle_exception, lines 57-60.
FrameworkFallback == handle_exception("InternalServerError")

NotFound == Response(404, "not found", "", <<>>)

HandlerError == Response(500, "str(e)", "", <<>>)

\* The success response of a handler whose cursor holds rows q.
Success(op, q) ==
  CASE op \in CreateOps -> Response(201, "", "", <<q[1]>>)
    [] op \in DeleteOps -> Response(200, "", "deleted successfully", <<>>)
    [] op \in ByIdOps \cup UpdateOps -> Response(200, "", "", <<q[1]>>)
    [] OTHER -> Response(200, "", "", q)

(***************************************************************************)
(* Workers.  pc is the driver call a worker makes next; tx its            *)
(* connection's uncommitted work; rows what its cursor fetched; trace the  *)
(* driver calls and log lines of the request it serves.  before is the     *)
(* committed store as it was when a request served alone arrived, kept    *)
(* for the properties that compare the store before and after a call.     *)
(***************************************************************************)
VARIABLES pc, req, rows, tx, trace, resp, served, before

vars == <<db, nextId, pc, req, rows, tx, trace, resp, served, before>>

FirstIds == [Users |-> 1, games |-> 1, purchases |-> 1]

\* A store that earlier requests have filled: one user with its wallet, one
\* game of that user and one purchase of that game.
SeedUser == InsertUser(EmptyDb, 1, << <<"email", Str("a@x")>>, <<"passwd", Str("pw")>> >>)
SeedDb1 == ApplyAll(EmptyDb, SeedUser.writes)
SeedDb2 == ApplyAll(SeedDb1, InsertWallet(SeedDb1, 1).writes)
SeedDb3 ==
  ApplyAll(SeedDb2,
           InsertGame(SeedDb2, 1,
                      << <<"name", Str("Chess")>>, <<"price", Num(<<"5", "0", "0">>)>>,
                         <<"publisher", JInt(1)>>, <<"status", Str("active")>> >>).writes)
SeedDb ==
  ApplyAll(SeedDb3,
           InsertPurchase(SeedDb3, 1, << <<"game_id", JInt(1)>>, <<"user_id", JInt(1)>> >>).writes)

Init ==
  /\ \/ db = EmptyDb /\ nextId = FirstIds
     \/ db = SeedDb /\ nextId = [Users |-> 2, games |-> 2, purchases |-> 2]
  /\ pc = [w \in Workers |-> "idle"]
  /\ req = [w \in Workers |-> NoRequest]
  /\ rows = [w \in Workers |-> <<>>]
  /\ tx = [w \in Workers |-> {}]
  /\ trace = [w \in Workers |-> <<>>]
  /\ resp = [w \in Workers |-> NoResponse]
  /\ served = 0
  /\ before = [w \in Workers |-> EmptyDb]

Goto(w, label) == pc' = [pc EXCEPT ![w] = label]

Log(w, events) == trace' = [trace EXCEPT ![w] = @ \o events]

Reply(w, response) == resp' = [resp EXCEPT ![w] = response]

\* Another connection holds a row this statement needs: the statement waits.
Blocked(w, writes) ==
  \E w2 \in Workers \ {w} : \E e1 \in writes : \E e2 \in tx[w2] : Conflicts(e1, e2)

\* The router hands a request to an idle worker, which runs the handler up to
\* get_db_connection(); an exception before that goes to handle_exception.
Start(w, r) ==
  /\ pc[w] = "idle"
  /\ r.op \in CreateOps => nextId[TableOf(r.op)] <= MaxId
  /\ served' = served + 1
  /\ req' = [req EXCEPT ![w] = r]
  /\ IF ParseError(r) # "none"
     THEN Goto(w, "done") /\ Reply(w, handle_exception(ParseError(r)))
     ELSE Goto(w, "connect") /\ Reply(w, NoResponse)
  /\ UNCHANGED <<db, nextId, rows, tx, trace>>

\* get_db_connection(), lines 22-35; for index, lines 78-84.
Connect(w, ok) ==
  /\ pc[w] = "connect"
  /\ IF ok
     THEN /\ Log(w, <<"connect">>)
          /\ IF req[w].op = "index"
             THEN Goto(w, "finally") /\ Reply(w, Response(200, "", "Connected", <<>>))
             ELSE Goto(w, "cursor") /\ UNCHANGED resp
     ELSE /\ Log(w, <<"connect_failed", "log_connection_error">>)
          /\ Goto(w, "done")
          /\ IF req[w].op = "index"
             THEN Reply(w, Response(200, "", "Connection Failed", <<>>))
             ELSE Reply(w, handle_exception("ConnectionError"))
  /\ UNCHANGED <<db, nextId, req, rows, tx, served, before>>

\* conn.cursor(...), before the try block: a failure leaves the handler with
\* the connection open.
Cursor(w, ok) ==
  /\ pc[w] = "cursor"
  /\ IF ok
     THEN Log(w, <<"cursor">>) /\ Goto(w, "execute")
     ELSE Log(w, <<"cursor_failed">>) /\ Goto(w, "handle_exception")
  /\ UNCHANGED <<db, nextId, req, rows, tx, resp, served, before>>

\* cur.execute(...) and the fetch after it.
Execute(w, ok, action) ==
  /\ pc[w] = "execute"
  /\ LET r == req[w]
         res == IF ok THEN Statement(db, nextId, r, action) ELSE Failed
     IN /\ ~Blocked(w, res.writes)
        /\ IF ~res.ok
           THEN /\ Log(w, <<"execute_failed">>)
                /\ IF r.op \in ReadOps
                   THEN Goto(w, "finally") /\ Reply(w, HandlerError)
                   ELSE Goto(w, "except") /\ UNCHANGED resp
                /\ UNCHANGED <<rows, tx, nextId>>
           ELSE /\ Log(w, <<"execute">>)
                /\ rows' = [rows EXCEPT ![w] = res.rows]
                /\ tx' = [tx EXCEPT ![w] = res.writes]
                /\ nextId' = IF r.op \in CreateOps
                             THEN [nextId EXCEPT ![TableOf(r.op)] = @ + 1]
                             ELSE nextId
                /\ IF r.op \in ReadOps
                   THEN /\ Goto(w, "finally")
                        /\ Reply(w, IF r.op \in ByIdOps /\ res.rows = <<>>
                                    THEN NotFound ELSE Success(r.op, res.rows))
                   ELSE /\ Goto(w, IF r.op \in CreateOps \/ res.rows # <<>>
                                   THEN "commit" ELSE "rollback")
                        /\ UNCHANGED resp
  /\ UNCHANGED <<db, req, served, before>>

\* conn.commit() after the handler's first statement.
Commit(w, ok) ==
  /\ pc[w] = "commit"
  /\ IF ok
     THEN /\ db' = ApplyAll(db, tx[w])
          /\ tx' = [tx EXCEPT ![w] = {}]
          /\ Log(w, <<"commit">>)
          /\ IF req[w].op = "create_user"
             THEN Goto(w, "execute_wallet") /\ UNCHANGED resp
             ELSE Goto(w, "finally") /\ Reply(w, Success(req[w].op, rows[w]))
     ELSE /\ Log(w, <<"commit_failed">>)
          /\ Goto(w, "except")
          /\ UNCHANGED <<db, tx, resp>>
  /\ UNCHANGED <<nextId, req, rows, served, before>>

\* create_user, lines 110-115: the wallet of the user just committed.
ExecuteWallet(w, ok) ==
  /\ pc[w] = "execute_wallet"
  /\ LET res == IF ok THEN InsertWallet(db, rows[w][1].uid) ELSE Failed
     IN /\ ~Blocked(w, res.writes)
        /\ IF res.ok
           THEN Log(w, <<"execute">>) /\ Goto(w, "commit_wallet")
           ELSE Log(w, <<"execute_failed">>) /\ Goto(w, "except")
        /\ tx' = [tx EXCEPT ![w] = res.writes]
  /\ UNCHANGED <<db, nextId, req, rows, resp, served, before>>

\* create_user, lines 116-117
CommitWallet(w, ok) ==
  /\ pc[w] = "commit_wallet"
  /\ IF ok
     THEN /\ db' = ApplyAll(db, tx[w])
          /\ tx' = [tx EXCEPT ![w] = {}]
          /\ Log(w, <<"commit">>)
          /\ Goto(w, "finally")
          /\ Reply(w, Success(req[w].op, rows[w]))
     ELSE /\ Log(w, <<"commit_failed">>)
          /\ Goto(w, "except")
          /\ UNCHANGED <<db, tx, resp>>
  /\ UNCHANGED <<nextId, req, rows, served, before>>

\* The not-found branch of an update or delete: conn.rollback(), then 404.
Rollback(w, ok) ==
  /\ pc[w] = "rollback"
  /\ IF ok
     THEN /\ Log(w, <<"rollback">>)
          /\ tx' = [tx EXCEPT ![w] = {}]
          /\ Goto(w, "finally")
          /\ Reply(w, NotFound)
     ELSE /\ Log(w, <<"rollback_failed">>)
          /\ Goto(w, "except")
          /\ UNCHANGED <<tx, resp>>
  /\ UNCHANGED <<db, nextId, req, rows, served, before>>

\* The except block without its conn.rollback().
ExceptWithoutRollback(w, ok) ==
  /\ pc[w] = "except"
  /\ Log(w, <<"log_error">>)
  /\ Goto(w, "finally")
  /\ Reply(w, HandlerError)
  /\ UNCHANGED <<db, nextId, req, rows, tx, served, before>>

\* except psycopg2.Error of a create, update or delete: conn.rollback(), log,
\* 500; a failing rollback leaves the handler as a psycopg2.Error.
Except(w, ok) ==
  /\ pc[w] = "except"
  /\ IF ok
     THEN /\ Log(w, <<"rollback", "log_error">>)
          /\ tx' = [tx EXCEPT ![w] = {}]
          /\ Goto(w, "finally")
          /\ Reply(w, HandlerError)
     ELSE /\ Log(w, <<"rollback_failed">>)
          /\ Goto(w, "finally_raise")
          /\ UNCHANGED <<tx, resp>>
  /\ UNCHANGED <<db, nextId, req, rows, served, before>>

\* finally: cur.close(); conn.close().  Closing ends whatever the connection
\* has not committed.
Finally(w) ==
  /\ pc[w] \in {"finally", "finally_raise"}
  /\ Log(w, <<"close">>)
  /\ tx' = [tx EXCEPT ![w] = {}]
  /\ Goto(w, IF pc[w] = "finally" THEN "done" ELSE "handle_exception")
  /\ UNCHANGED <<db, nextId, req, rows, resp, served, before>>

\* handle_exception for a psycopg2.Error, lines 43-47: a fresh connection.
HandleException(w, ok) ==
  /\ pc[w] = "handle_exception"
  /\ IF ok
     THEN Log(w, <<"t_connect">>) /\ Goto(w, "handler_rollback") /\ UNCHANGED resp
     ELSE /\ Log(w, <<"t_connect_failed", "log_connection_error">>)
          /\ Goto(w, "done")
          /\ Reply(w, FrameworkFallback)
  /\ UNCHANGED <<db, nextId, req, rows, tx, served, before>>

\* handle_exception, lines 48-52: rollback and close on the fresh connection.
HandlerRollback(w, ok) ==
  /\ pc[w] = "handler_rollback"
  /\ IF ok
     THEN Log(w, <<"t_rollback", "t_close">>)
     ELSE Log(w, <<"t_rollback_failed", "log_rollback_error">>)
  /\ Goto(w, "done")
  /\ Reply(w, DatabaseError)
  /\ UNCHANGED <<db, nextId, req, rows, tx, served, before>>

\* The response leaves; the worker is free again.
Finish(w) ==
  /\ pc[w] = "done"
  /\ Goto(w, "idle")
  /\ req' = [req EXCEPT ![w] = NoRequest]
  /\ rows' = [rows EXCEPT ![w] = <<>>]
  /\ trace' = [trace EXCEPT ![w] = <<>>]
  /\ Reply(w, NoResponse)
  /\ before' = [before EXCEPT ![w] = EmptyDb]
  /\ UNCHANGED <<db, nextId, tx, served>>

\* The steps of a request in flight.
Step(w) ==
  \/ \E ok \in BOOLEAN : Connect(w, ok)
  \/ \E ok \in BOOLEAN : Cursor(w, ok)
  \/ \E ok \in BOOLEAN, action \in ReferentialActions : Execute(w, ok, action)
  \/ \E ok \in BOOLEAN : Commit(w, ok)
  \/ \E ok \in BOOLEAN : ExecuteWallet(w, ok)
  \/ \E ok \in BOOLEAN : CommitWallet(w, ok)
  \/ \E ok \in BOOLEAN : Rollback(w, ok)
  \/ \E ok \in BOOLEAN : Except(w, ok)
  \/ Finally(w)
  \/ \E ok \in BOOLEAN : HandleException(w, ok)
  \/ \E ok \in BOOLEAN : HandlerRollback(w, ok)
  \/ Finish(w)

\* One request at a time: any request of Requests, served by the first worker;
\* before records the store the call starts from.
SerialStart(r) ==
  /\ served < MaxRequests
  /\ \A w \in Workers : pc[w] = "idle"
  /\ Start("w1", r)
  /\ before' = [before EXCEPT !["w1"] = db]

Next ==
  \/ \E r \in Requests : SerialStart(r)
  \/ \E w \in Workers : Step(w)

Spec == Init /\ [][Next]_vars

\* Requests in flight together: those that create and delete users and read
\* and write their wallets, handed to the first idle worker.
ConcurrentRequests ==
  {r \in Requests :
     \/ r.op \in {"delete_user", "get_wallet"}
     \/ r.op = "create_user" /\ ParseError(r) = "none"
     \/ r.op = "update_wallet_balance" /\ r.data = << <<"balance", JInt(20)>> >>}

ConcurrentStart(w, r) ==
  /\ served < MaxConcurrent
  /\ \A v \in Workers : (v # w /\ pc[v] = "idle") => w = "w1"
  /\ Start(w, r)
  /\ UNCHANGED before

NextConcurrent ==
  \/ \E w \in Workers : \E r \in ConcurrentRequests : ConcurrentStart(w, r)
  \/ \E w \in Workers : Step(w)

SpecConcurrent == Init /\ [][NextConcurrent]_vars

(***************************************************************************)
(* Properties.                                                             *)
(***************************************************************************)
Has(q, e) == \E i \in 1 .. Len(q) : q[i] = e

Count(q, e) == Cardinality({i \in 1 .. Len(q) : q[i] = e})

FailureEvents == {"connect_failed", "cursor_failed", "execute_failed", "commit_failed",
                  "rollback_failed", "t_connect_failed", "t_rollback_failed"}

NoFailure(q) == \A i \in 1 .. Len(q) : q[i] \notin FailureEvents

Tables == {"Users", "Wallets", "games", "purchases"}

RowCount(d, t) == IF t = "Wallets" THEN Len(d.Wallets) ELSE Cardinality(DOMAIN d[t])

\* The id in the path names a row of the handler's table in store d.
Matches(d, r) ==
  IF TableOf(r.op) = "Wallets" THEN WalletIdx(d, r.id) # {}
  ELSE r.id \in DOMAIN d[TableOf(r.op)]

Whitelist(op) == IF op = "update_user" THEN UserFields ELSE GameFields

NoWhitelistedKey(r) == \A i \in 1 .. Len(r.data) : r.data[i][1] \notin Whitelist(r.op)

Done(w) == pc[w] = "done"

\* C1: the step in which create_user produces its 201 leaves, committed,
\* exactly one Wallets row with the returned uid, with balance 0, and nothing
\* of the request uncommitted.
C1_WalletCommittedOnSuccess ==
  [][\A w \in Workers :
       (req[w].op = "create_user" /\ resp[w].status # 201 /\ resp'[w].status = 201)
         => /\ Cardinality(WalletIdx(db', resp'[w].body[1].uid)) = 1
            /\ \A i \in WalletIdx(db', resp'[w].body[1].uid) : db'.Wallets[i].balance = 0
            /\ resp'[w].body[1].uid \in DOMAIN db'.Users
            /\ tx'[w] = {}]_vars

C1_Witness ==
  \E w \in Workers :
    /\ Done(w) /\ req[w].op = "create_user" /\ resp[w].status = 201
    /\ WalletIdx(db, resp[w].body[1].uid) # {}

\* C2: in every committed state of the store, every Users row has a Wallets
\* row with the same uid.
C2_UserNeverWithoutWallet == \A u \in DOMAIN db.Users : WalletIdx(db, u) # {}

\* C3: an update whose path id matches no row leaves the committed store as it
\* was; with an acceptable body and a working store it answers 404 after a
\* rollback and without a commit; and a 404 of an update is never preceded by a
\* commit.
C3_UpdateMissingIsNotFound ==
  \A w \in Workers :
    (Done(w) /\ req[w].op \in UpdateOps /\ ParseError(req[w]) = "none")
      => /\ ~Matches(before[w], req[w]) => db = before[w]
         /\ (/\ ~Matches(before[w], req[w])
             /\ req[w].op \in {"update_user", "update_game"} => ~NoWhitelistedKey(req[w])
             /\ NoFailure(trace[w]))
              => /\ resp[w] = NotFound
                 /\ Has(trace[w], "rollback")
                 /\ ~Has(trace[w], "commit")
         /\ resp[w].status = 404
              => ~Matches(before[w], req[w]) /\ db = before[w] /\ ~Has(trace[w], "commit")

C3_Witness ==
  \E w \in Workers :
    /\ Done(w) /\ req[w].op = "update_game" /\ resp[w] = NotFound
    /\ before[w].games # EmptyTable /\ ~Matches(before[w], req[w])

\* C4: a delete whose path id matches no row answers 404 and leaves every
\* table's row count (and content) as it was; a delete whose id matches a row
\* removes exactly that row from its table, commits and answers 200.
C4_DeleteFrame ==
  \A w \in Workers :
    (Done(w) /\ req[w].op \in DeleteOps)
      => LET t == TableOf(req[w].op)
             id == req[w].id
             b == before[w]
         IN /\ id \notin DOMAIN b[t]
                 => /\ \A tt \in Tables : RowCount(db, tt) = RowCount(b, tt)
                    /\ db = b
                    /\ NoFailure(trace[w]) => resp[w] = NotFound
            /\ (id \in DOMAIN b[t] /\ NoFailure(trace[w]))
                 => /\ resp[w].status = 200
                    /\ db[t] = Drop(b[t], {id})
                    /\ Has(trace[w], "commit")
            /\ resp[w].status = 404 => id \notin DOMAIN b[t]
            /\ resp[w].status = 200 => id \in DOMAIN b[t] /\ db[t] = Drop(b[t], {id})

C4_Witness ==
  \E w \in Workers :
    /\ Done(w) /\ req[w].op = "delete_purchase" /\ resp[w].status = 200
    /\ RowCount(before[w], "purchases") = 2 /\ RowCount(db, "purchases") = 1

\* C5: a CRUD handler whose get_db_connection() fails answers 503 "Database
\* connection failed", has executed no statement and leaves the store as it
\* was; a handler whose statement failed on its open connection answers 500;
\* and 503 is answered for nothing but that connection failure.
C5_ConnectionFailureIs503 ==
  \A w \in Workers :
    (Done(w) /\ req[w].op \in ReadOps \cup CreateOps \cup UpdateOps \cup DeleteOps)
      => /\ Has(trace[w], "connect_failed")
              => /\ resp[w].status = 503
                 /\ resp[w].error = "Database connection failed"
                 /\ ~Has(trace[w], "execute") /\ ~Has(trace[w], "execute_failed")
                 /\ db = before[w]
         /\ Has(trace[w], "execute_failed") => resp[w].status = 500
         /\ resp[w].status = 503 => trace[w][1] = "connect_failed"

C5_Witness ==
  \E w \in Workers :
    /\ Done(w) /\ req[w].op = "create_game" /\ Has(trace[w], "connect_failed")
    /\ resp[w].status = 503

\* C6: when handle_exception's rollback attempt on a fresh connection fails,
\* whether in opening the connection or in the rollback, the failure is logged
\* and the response is the 500 "Database error".
C6_RollbackFailureKeepsResponse ==
  \A w \in Workers :
    (Done(w) /\ (Has(trace[w], "t_connect_failed") \/ Has(trace[w], "t_rollback_failed")))
      => /\ resp[w] = DatabaseError
         /\ Has(trace[w], "log_rollback_error") \/ Has(trace[w], "log_connection_error")

\* C7: update_user and update_game with a body without a whitelisted key: the
\* store is never changed and the status is never 4xx; once the connection and
\* cursor exist the UPDATE fails, is rolled back, nothing is committed and the
\* status is 500, whether or not the id exists.
C7_EmptyUpdateIs500 ==
  \A w \in Workers :
    (Done(w) /\ req[w].op \in {"update_user", "update_game"} /\ NoWhitelistedKey(req[w]))
      => /\ db = before[w]
         /\ ~(resp[w].status >= 400 /\ resp[w].status < 500)
         /\ Has(trace[w], "cursor")
              => /\ Has(trace[w], "execute_failed")
                 /\ ~Has(trace[w], "execute")
                 /\ ~Has(trace[w], "commit")
                 /\ Has(trace[w], "rollback") \/ Has(trace[w], "rollback_failed")
                 /\ resp[w].status = 500

C7_Witness ==
  \E w \in Workers :
    /\ Done(w) /\ req[w].op = "update_game" /\ NoWhitelistedKey(req[w])
    /\ req[w].data # <<>> /\ Matches(before[w], req[w])
    /\ resp[w] = HandlerError

\* The value the body gives a games column.
BodyColumn(data, k) == IF k = "price" THEN PyInt(Get(data, k)) ELSE Get(data, k)

\* C8: update_game on an existing gid with at least one whitelisted key, on a
\* working store: 200, the row's whitelisted columns named in the body hold the
\* body's values (price as an integer; "750" is 750), its other columns,
\* the other games rows and the other tables are as before.
C8_UpdateGameFrame ==
  \A w \in Workers :
    (/\ Done(w) /\ req[w].op = "update_game" /\ ParseError(req[w]) = "none"
     /\ ~NoWhitelistedKey(req[w]) /\ Matches(before[w], req[w]) /\ NoFailure(trace[w]))
      => LET id == req[w].id
             data == req[w].data
             old == before[w].games[id]
         IN /\ resp[w].status = 200
            /\ DOMAIN db.games = DOMAIN before[w].games
            /\ \A k \in DOMAIN old :
                 db.games[id][k] = IF k \in GameFields /\ HasKey(data, k)
                                   THEN BodyColumn(data, k) ELSE old[k]
            /\ (HasKey(data, "price") /\ Get(data, "price") = Num(<<"7", "5", "0">>))
                 => db.games[id].price = 750
            /\ \A g \in DOMAIN db.games \ {id} : db.games[g] = before[w].games[g]
            /\ db.Users = before[w].Users /\ db.Wallets = before[w].Wallets
            /\ db.purchases = before[w].purchases
            /\ resp[w].body = <<db.games[id]>>

C8_Witness ==
  \E w \in Workers :
    /\ Done(w) /\ req[w].op = "update_game" /\ resp[w].status = 200
    /\ HasKey(req[w].data, "unknown_field") /\ HasKey(req[w].data, "price")
    /\ before[w].games[req[w].id].price = 500
    /\ db.games[req[w].id].price = 750

\* C9: when a request's response is produced, every connection the request
\* opened, the handler's and handle_exception's, has been closed.
C9_ConnectionsClosed ==
  \A w \in Workers :
    Done(w) => /\ Count(trace[w], "connect") = Count(trace[w], "close")
               /\ Count(trace[w], "t_connect") = Count(trace[w], "t_close")

FirstAt(q, e) == CHOOSE i \in 1 .. Len(q) : q[i] = e /\ \A j \in 1 .. (i - 1) : q[j] # e

\* C10: a create, update or delete answers 200 or 201 only after a commit on
\* its connection, and the connection is closed after that commit; after a
\* failed statement, the response comes only after conn.rollback() was called,
\* nothing is committed after the failure and nothing of the request is left
\* uncommitted.
C10_CommitBeforeSuccess ==
  \A w \in Workers :
    (req[w].op \in CreateOps \cup UpdateOps \cup DeleteOps /\ resp[w].status # 0)
      => LET q == trace[w]
         IN /\ resp[w].status \in {200, 201}
                 => /\ Has(q, "commit")
                    /\ \A i, j \in 1 .. Len(q) : (q[i] = "commit" /\ q[j] = "close") => i < j
                    /\ Done(w) => q[Len(q)] = "close"
                    /\ tx[w] = {}
            /\ Has(q, "execute_failed")
                 => /\ \E j \in 1 .. Len(q) :
                         j > FirstAt(q, "execute_failed") /\ q[j] \in {"rollback", "rollback_failed"}
                    /\ \A j \in 1 .. Len(q) : q[j] = "commit" => j < FirstAt(q, "execute_failed")
                    /\ Done(w) => tx[w] = {}
                    /\ resp[w].status = 500

C10_Witness ==
  \E w \in Workers :
    /\ Done(w) /\ req[w].op = "create_user" /\ resp[w] = HandlerError
    /\ Has(trace[w], "commit") /\ Has(trace[w], "execute_failed") /\ Has(trace[w], "rollback")
====
